---- MODULE Spec2Model ----
(***************************************************************************)
(* RPLidar data_logger (app/data_logger/main.cpp) and visual logger        *)
(* (app/visual_logger/main.cpp): connection negotiation, the scan loop and *)
(* the per-sample filter that writes the record stream.                    *)
(*                                                                         *)
(* Angles are kept exactly: current_angle = angle_z_q14 * 90 / 16384 is    *)
(* exact in a float (the product is below 2^24 and 16384 is a power of     *)
(* two), so an angle is held as the integer angle_z_q14 * 90 in units of   *)
(* 1/16384 degree.  current_distance = dist_mm_q2 / 4 is held in quarter   *)
(* millimetres.  A line of the output file holds what operator<< writes:   *)
(* the two floats rounded to six significant digits, as exact decimals.    *)
(***************************************************************************)
EXTENDS Integers, Sequences, FiniteSets, TLC

\* ---------------------------------------------------------------- constants
BARCOUNT == 360
MAX_POINTS_PER_DEGREE == 5
ANGLE_SCALE == 90
ANGLE_DIV == 16384
DIST_DIV == 4
\* significant digits operator<< prints of a float (the stream's precision is
\* left at its default)
SIG_DIGITS == 6
BAUD_A == 115200
BAUD_B == 256000
baudrateArray == <<BAUD_A, BAUD_B>>

\* ------------------------------------------------------------------- bounds
\* successful polls per run, and the largest batch a poll returns
MaxOkPolls == 2
MaxCount == 11

\* Raw nodes the driver hands over (angle_z_q14, dist_mm_q2, quality):
\* 5.004 deg without a range, 10.003 deg at 1000 mm, and the largest angle
\* angle_z_q14 can hold, 359.9945 deg, at 10000.25 mm.
Nodes ==
    { [angle_z_q14 |-> 911,   dist_mm_q2 |-> 0,     quality |-> 0],
      [angle_z_q14 |-> 1821,  dist_mm_q2 |-> 4000,  quality |-> 47],
      [angle_z_q14 |-> 65535, dist_mm_q2 |-> 40001, quality |-> 60] }

\* drv->ascendScanData(nodes, count): a batch is in ascending angle order
Ascended(b) ==
    \A i \in 1..(Len(b) - 1) : b[i].angle_z_q14 <= b[i + 1].angle_z_q14

\* The batches a successful poll may return: every ascending batch of one or
\* two nodes, and the batches of MaxCount copies of one node.
ShortSizes == {1, 2}
Batches ==
    { b \in UNION { [1..len -> Nodes] : len \in ShortSizes } : Ascended(b) }
    \cup
    { b \in { [i \in 1..MaxCount |-> n] : n \in Nodes } : Ascended(b) }

\* argv[4] when it is given
ArgvSecond == {1000000}

Variants == {"data_logger", "visual"}
Transports == {"serial", "udp"}
AttemptOutcomes == {"connect_fail", "info_fail", "ok"}
HealthResults == {"fail", "good", "warning", "error"}

HeaderLine == "timestamp,angle,distance,quality,scan_number"

VARIABLES
    variant,                  \* which program runs
    argc, argv2, argv4,       \* command line
    pc,                       \* position in main
    opt_channel_type, opt_channel_param_second, useArgcBaudrate,
    drv,                      \* "none" | "live" | "null" (deleted and set to NULL)
    connectSuccess,
    attempts,                 \* connect attempts made: <<[rate, outcome, live]>>
    channels,                 \* channel objects created and never released
    deletes,                  \* times "delete drv" ran on a driver instance
    glState,                  \* visual: "none" | "init" | "destroyed"
    cleanups,                 \* visual: calls of cleanupOpenGL
    health,                   \* result of the health query, "none" before it
    handlerSet,               \* signal(SIGINT, ctrlc) done
    scanStarted, scanStopped, \* startScan / stop issued
    fileOpen, file,           \* outFile and the lines of the output file
    op_ok,                    \* SL_IS_OK(op_result) of the last poll
    nodes, count, pos,        \* the batch buffer, its size, the loop index
    last_angle, skip_next, points_per_degree, scan_count,
    pointData,                \* visual: the render buffer
    ctrl_c_pressed,           \* ctrl_c_pressed / shouldClose
    closeRequested,           \* visual: the user asked to close the window
    windowShouldClose,        \* visual: glfwWindowShouldClose(window)
    polled,                   \* grabScanDataHq has been called
    okPolls,                  \* successful polls so far
    pollsAfterFlag,           \* history: polls issued with the flag already set
    examined                  \* history: one entry per examined sample

vars == << variant, argc, argv2, argv4, pc, opt_channel_type,
           opt_channel_param_second, useArgcBaudrate, drv, connectSuccess,
           attempts, channels, deletes, glState, cleanups, health,
           handlerSet,
           scanStarted, scanStopped, fileOpen, file, op_ok, nodes, count, pos,
           last_angle, skip_next, points_per_degree, scan_count, pointData,
           ctrl_c_pressed, closeRequested, windowShouldClose, polled,
           okPolls, pollsAfterFlag, examined >>

negVars == << opt_channel_type, opt_channel_param_second, useArgcBaudrate,
              connectSuccess, attempts, channels, deletes >>
argVars == << variant, argc, argv2, argv4 >>
procVars == << last_angle, skip_next, points_per_degree, scan_count >>
batchVars == << op_ok, nodes, count, pos, polled, okPolls, pollsAfterFlag,
               examined >>
asyncVars == << ctrl_c_pressed, closeRequested >>
lifeVars == << health, handlerSet, scanStarted, scanStopped >>

\* The state at the entry of main, with the output path holding the given
\* lines.
InitFile(lines) ==
    /\ variant \in Variants
    /\ argv2 \in Transports
    /\ argc \in IF argv2 = "serial" THEN {4, 5} ELSE {5}
    /\ argv4 \in IF argc > 4 THEN ArgvSecond ELSE {0}
    /\ pc = "parse"
    /\ opt_channel_type = "serial"
    /\ opt_channel_param_second = 0
    /\ useArgcBaudrate = FALSE
    /\ drv = "none"
    /\ connectSuccess = FALSE
    /\ attempts = << >>
    /\ channels = 0
    /\ deletes = 0
    /\ glState = "none"
    /\ cleanups = 0
    /\ health = "none"
    /\ handlerSet = FALSE
    /\ scanStarted = FALSE
    /\ scanStopped = FALSE
    /\ fileOpen = FALSE
    /\ file = lines
    /\ op_ok = FALSE
    /\ count = 0
    /\ pos = 0
    /\ nodes = << >>
    /\ last_angle = 0
    /\ skip_next = FALSE
    /\ points_per_degree = [d \in 0..(BARCOUNT - 1) |-> 0]
    /\ scan_count = 0
    /\ pointData = << >>
    /\ ctrl_c_pressed = FALSE
    /\ closeRequested = FALSE
    /\ windowShouldClose = FALSE
    /\ polled = FALSE
    /\ okPolls = 0
    /\ pollsAfterFlag = 0
    /\ examined = << >>

\* The output path names no file yet (the default name carries the time of
\* the start).
Init == InitFile(<< >>)

\* ------------------------------------------------------------ argument parse
\* main up to the creation of the driver instance.  A serial transport flag
\* sets useArgcBaudrate whether or not argv[4] was given.
ParseArgs ==
    /\ pc = "parse"
    /\ opt_channel_param_second' = IF argc > 4 THEN argv4 ELSE 0
    /\ useArgcBaudrate' = (argv2 = "serial")
    /\ opt_channel_type' = argv2
    /\ glState' = IF variant = "visual" THEN "init" ELSE glState
    /\ drv' = "live"
    /\ pc' = "connect"
    /\ UNCHANGED << argVars, connectSuccess, attempts, channels, deletes,
                    cleanups,
                    lifeVars, fileOpen, file, batchVars, procVars, pointData,
                    asyncVars, windowShouldClose >>

\* ------------------------------------------------------------- negotiation
\* Calling through drv after "delete drv; drv = NULL" dereferences a null
\* pointer: the build may fault or may run the call.
NullCalls == {"fault", "runs"}

NegState(d, ok, att, ch, del, crashed) ==
    [drv |-> d, connectSuccess |-> ok, attempts |-> att, channels |-> ch,
     deletes |-> del, crashed |-> crashed]

\* One candidate: create the channel, connect, query the device identity.
\* On a failed identity query the driver is deleted and drv set to NULL; the
\* channel object is released nowhere.
AttemptTransport(ns, rate, outcome, nullCall) ==
    IF ns.drv = "null" /\ nullCall = "fault"
    THEN NegState(ns.drv, ns.connectSuccess,
                  Append(ns.attempts, [rate |-> rate, outcome |-> "fault",
                                       live |-> FALSE]),
                  ns.channels + 1, ns.deletes, TRUE)
    ELSE NegState(IF outcome = "info_fail" THEN "null" ELSE ns.drv,
                  ns.connectSuccess \/ outcome = "ok",
                  Append(ns.attempts, [rate |-> rate, outcome |-> outcome,
                                       live |-> ns.drv = "live"]),
                  ns.channels + 1,
                  IF outcome = "info_fail" /\ ns.drv = "live"
                  THEN ns.deletes + 1 ELSE ns.deletes,
                  FALSE)

\* for (i = 0; i < baudRateArraySize; ++i) { ... break on success ... }
RECURSIVE ProbeBaudrates(_, _, _, _)
ProbeBaudrates(i, ns, outs, nullCall) ==
    IF i > Len(baudrateArray) \/ ns.crashed \/ ns.connectSuccess
    THEN ns
    ELSE ProbeBaudrates(i + 1,
                        AttemptTransport(ns, baudrateArray[i], outs[i], nullCall),
                        outs, nullCall)

\* The whole if / else-if over the channel type.
NegotiateResult(ns, type, useArgc, second, outs, nullCall) ==
    IF type = "serial"
    THEN IF useArgc
         THEN AttemptTransport(ns, second, outs[1], nullCall)
         ELSE ProbeBaudrates(1, ns, outs, nullCall)
    ELSE AttemptTransport(ns, second, outs[1], nullCall)

Negotiate ==
    /\ pc = "connect"
    /\ \E outs \in [1..Len(baudrateArray) -> AttemptOutcomes], nullCall \in NullCalls :
         LET ns == NegotiateResult(
                       NegState(drv, connectSuccess, attempts, channels, deletes,
                                FALSE),
                       opt_channel_type, useArgcBaudrate,
                       opt_channel_param_second, outs, nullCall)
         IN  /\ drv' = ns.drv
             /\ connectSuccess' = ns.connectSuccess
             /\ attempts' = ns.attempts
             /\ channels' = ns.channels
             /\ deletes' = ns.deletes
             /\ pc' = IF ns.crashed THEN "crashed" ELSE "negotiated"
    /\ UNCHANGED << argVars, opt_channel_type, opt_channel_param_second,
                    useArgcBaudrate, glState, cleanups, lifeVars, fileOpen,
                    file, batchVars, procVars, pointData, asyncVars,
                    windowShouldClose >>

\* cleanupOpenGL(): window is never reset, so every call sees it non-null.
CleanupOpenGL(g) == IF g = "init" THEN "destroyed" ELSE g

\* An error exit of the visual logger calls cleanupOpenGL() before the goto.
ErrorExit ==
    /\ pc' = "finish"
    /\ glState' = IF variant = "visual" THEN CleanupOpenGL(glState) ELSE glState
    /\ cleanups' = IF variant = "visual" THEN cleanups + 1 ELSE cleanups

\* if (!connectSuccess) { ...; goto on_finished; }
ConnectCheck ==
    /\ pc = "negotiated"
    /\ IF ~connectSuccess
       THEN ErrorExit
       ELSE pc' = "health" /\ UNCHANGED << glState, cleanups >>
    /\ UNCHANGED << argVars, negVars, drv, lifeVars, fileOpen, file,
                    batchVars, procVars, pointData, asyncVars,
                    windowShouldClose >>

\* mutant: the status of a successful health query is not looked at
HealthStatusIgnored(h) == h # "fail"

\* checkSLAMTECLIDARHealth: true when getHealth succeeded and the status is
\* not SL_LIDAR_STATUS_ERROR.
checkSLAMTECLIDARHealth(h) == h \in {"good", "warning"}

CheckHealth ==
    /\ pc = "health"
    /\ \E h \in HealthResults :
         /\ health' = h
         /\ IF ~checkSLAMTECLIDARHealth(h)
            THEN ErrorExit
            ELSE pc' = "startscan" /\ UNCHANGED << glState, cleanups >>
    /\ UNCHANGED << argVars, negVars, drv, handlerSet, scanStarted,
                    scanStopped, fileOpen, file, batchVars, procVars,
                    pointData, asyncVars, windowShouldClose >>

\* signal(SIGINT, ctrlc); drv->setMotorSpeed(); drv->startScan(0,1);
StartScan ==
    /\ pc = "startscan"
    /\ handlerSet' = TRUE
    /\ scanStarted' = TRUE
    /\ pc' = "open"
    /\ UNCHANGED << argVars, negVars, drv, glState, cleanups, health,
                    scanStopped, fileOpen, file, batchVars, procVars,
                    pointData, asyncVars, windowShouldClose >>

\* outFile.open(output_file): the mode is left at the default of an ofstream,
\* which truncates a file that exists
OpenTruncates(old) == << >>

\* outFile.open(output_file); on success the header line is written.
OpenFile ==
    /\ pc = "open"
    /\ \E opened \in BOOLEAN :
         IF opened
         THEN /\ fileOpen' = TRUE
              /\ file' = Append(OpenTruncates(file), HeaderLine)
              /\ pc' = "loop"
              /\ UNCHANGED << glState, cleanups >>
         ELSE /\ ErrorExit
              /\ UNCHANGED << fileOpen, file >>
    /\ UNCHANGED << argVars, negVars, drv, lifeVars, batchVars, procVars,
                    pointData, asyncVars, windowShouldClose >>

\* ---------------------------------------------------------------- scan loop
ZeroBuckets == [d \in 0..(BARCOUNT - 1) |-> 0]

\* float current_angle = (nodes[pos].angle_z_q14 * 90.f) / 16384.f, in units
\* of 1/16384 degree
CurrentAngle(n) == n.angle_z_q14 * ANGLE_SCALE

\* float current_distance = nodes[pos].dist_mm_q2 / 4.0f, in units of
\* 1/DIST_DIV mm
CurrentDistance(n) == n.dist_mm_q2

\* int degree = (int)current_angle
Degree(a) == a \div ANGLE_DIV

\* mutant: the range test is dropped
ReachesFilterAnyRange(n, skip) == ~skip

\* if (current_distance > 0 && !skip_next): the sample reaches the bucket filter
ReachesFilter(n, skip) == CurrentDistance(n) > 0 /\ ~skip

\* mutant: the bucket test lets a full bucket take one more
AcceptedPastCap(n, skip, ppd) ==
    /\ ReachesFilter(n, skip)
    /\ Degree(CurrentAngle(n)) >= 0
    /\ Degree(CurrentAngle(n)) < BARCOUNT
    /\ ppd[Degree(CurrentAngle(n))] <= MAX_POINTS_PER_DEGREE

\* the three nested conditions under which a line is written
Accepted(n, skip, ppd) ==
    /\ ReachesFilter(n, skip)
    /\ Degree(CurrentAngle(n)) >= 0
    /\ Degree(CurrentAngle(n)) < BARCOUNT
    /\ ppd[Degree(CurrentAngle(n))] < MAX_POINTS_PER_DEGREE

\* mutant: the flag is cleared instead of toggled
ToggleSkipCleared(skip) == FALSE

\* skip_next = !skip_next
ToggleSkip(skip) == ~skip

\* if (current_angle < last_angle)
Wrapped(a, last) == a < last

\* mutant: last_angle follows accepted samples only
LastAngleOnAccept(a, last, acc) == IF acc THEN a ELSE last

\* last_angle = current_angle, at the foot of the loop body
LastAngle(a, last, acc) == a

\* mutant: the wraparound counts down
ScanCountOnWrapDown(v, sc) == sc - 1

\* what a detected wraparound does to scan_count: data_logger increments it,
\* the visual logger leaves it alone
ScanCountOnWrap(v, sc) == IF v = "data_logger" THEN sc + 1 ELSE sc

\* scan_count++ at the head of a successfully polled batch
ScanCountOnBatch(sc) == sc + 1

\* time(&current_time): the run is taken to last less than a second
time_now == 1700000000

RECURSIVE Pow10(_)
Pow10(k) == IF k = 0 THEN 1 ELSE 10 * Pow10(k - 1)

RECURSIVE IntExp10(_)
\* the decimal exponent of an integer i >= 1
IntExp10(i) == IF i < 10 THEN 0 ELSE 1 + IntExp10(i \div 10)

RECURSIVE FracExp10(_, _)
\* the decimal exponent of num / den for 0 < num < den
FracExp10(num, den) ==
    IF num * 10 >= den THEN 0 - 1 ELSE FracExp10(num * 10, den) - 1

\* the decimal exponent e of x = num / den > 0: 10^e <= x < 10^(e + 1)
Exp10(num, den) ==
    IF num >= den THEN IntExp10(num \div den) ELSE FracExp10(num, den)

RECURSIVE LongDiv(_, _, _, _)
\* k further decimal digits of (q + r / den): the digits so far and the rest
LongDiv(q, r, den, k) ==
    IF k = 0 THEN [q |-> q, r |-> r]
    ELSE LongDiv(q * 10 + (r * 10) \div den, (r * 10) % den, den, k - 1)

\* q + r / den rounded to an integer, a tie going to the even neighbour (the
\* conversion is exact and follows the rounding mode, round-to-nearest-even)
RoundHalfEven(q, r, den) ==
    IF 2 * r < den THEN q
    ELSE IF 2 * r > den THEN q + 1
    ELSE IF q % 2 = 0 THEN q ELSE q + 1

\* outFile << x for a float x = num / den >= 0: the decimal text that
\* operator<< writes, x rounded to SIG_DIGITS significant digits, held as the
\* exact decimal n / d it denotes
FormatFloat(num, den) ==
    IF num = 0 THEN [n |-> 0, d |-> 1]
    ELSE LET dec == SIG_DIGITS - 1 - Exp10(num, den) IN
         IF dec >= 0
         THEN LET ld == LongDiv(num \div den, num % den, den, dec)
              IN  [n |-> RoundHalfEven(ld.q, ld.r, den), d |-> Pow10(dec)]
         ELSE LET unit == Pow10(0 - dec)
              IN  [n |-> RoundHalfEven(num \div (den * unit),
                                       num % (den * unit), den * unit) * unit,
                   d |-> 1]

\* mutant: distance and angle change places
RecordLineSwapped(n, sc) ==
    [timestamp |-> time_now,
     angle |-> FormatFloat(CurrentDistance(n), DIST_DIV),
     distance |-> FormatFloat(CurrentAngle(n), ANGLE_DIV),
     quality |-> n.quality, scan_number |-> sc]

\* outFile << current_time << "," << current_angle << "," << current_distance
\*         << "," << (int)quality << "," << scan_count << "\n"
\* The integers are written in full, the two floats as FormatFloat gives them.
RecordLine(n, sc) ==
    [timestamp |-> time_now,
     angle |-> FormatFloat(CurrentAngle(n), ANGLE_DIV),
     distance |-> FormatFloat(CurrentDistance(n), DIST_DIV),
     quality |-> n.quality, scan_number |-> sc]

\* pointData.push_back(d * cos(rad)); pointData.push_back(d * sin(rad)):
\* the pair is kept in polar form
Point(n) == [r |-> CurrentDistance(n), theta |-> CurrentAngle(n)]

\* mutant: the buffer is not cleared
ClearPointsForgotten(v, pd) == pd

\* pointData.clear() at the head of a successfully polled batch (visual logger)
ClearPoints(v, pd) == IF v = "visual" THEN << >> ELSE pd

\* mutant: scan_count++ sits before the test of op_result
FailedPollCounted(st) == [st EXCEPT !.scan_count = @ + 1]

\* what a poll with a non-success status does to the processor state: the
\* body of if (SL_IS_OK(op_result)) is not entered
FailedPoll(st) == st

\* the while condition of the visual logger; data_logger loops on while (1)
LoopCondition(v, flag, wsc) == v = "data_logger" \/ (~flag /\ ~wsc)

\* count = _countof(nodes); op_result = drv->grabScanDataHq(nodes, count, 0);
\* and, on success, the head of the batch.
Poll ==
    /\ pc = "loop"
    /\ LoopCondition(variant, ctrl_c_pressed, windowShouldClose)
    /\ polled' = TRUE
    /\ pollsAfterFlag' = IF ctrl_c_pressed /\ pollsAfterFlag < 2
                         THEN pollsAfterFlag + 1 ELSE pollsAfterFlag
    /\ \E ok \in BOOLEAN :
         IF ok
         THEN /\ okPolls < MaxOkPolls
              /\ \E b \in Batches :
                   /\ nodes' = b
                   /\ count' = Len(b)
                   /\ pos' = 0
                   /\ op_ok' = TRUE
                   /\ okPolls' = okPolls + 1
                   /\ scan_count' = ScanCountOnBatch(scan_count)
                   /\ pointData' = ClearPoints(variant, pointData)
                   /\ pc' = "sample"
                   /\ UNCHANGED << last_angle, skip_next, points_per_degree >>
         ELSE /\ op_ok' = FALSE
              /\ pc' = "check"
              /\ LET st == FailedPoll([last_angle |-> last_angle,
                                        skip_next |-> skip_next,
                                        points_per_degree |-> points_per_degree,
                                        scan_count |-> scan_count])
                 IN  /\ last_angle' = st.last_angle
                     /\ skip_next' = st.skip_next
                     /\ points_per_degree' = st.points_per_degree
                     /\ scan_count' = st.scan_count
              /\ UNCHANGED << nodes, count, pos, okPolls, pointData >>
    /\ UNCHANGED << argVars, negVars, drv, glState, cleanups, lifeVars,
                    fileOpen, file, examined, asyncVars, windowShouldClose >>

\* One pass of the for loop over nodes[pos].
ProcessSample ==
    /\ pc = "sample"
    /\ pos < count
    /\ LET n == nodes[pos + 1] IN
         /\ LET a == CurrentAngle(n)
                acc == Accepted(n, skip_next, points_per_degree)
                wrap == Wrapped(a, last_angle)
                counted == IF acc
                           THEN [points_per_degree EXCEPT ![Degree(a)] = @ + 1]
                           ELSE points_per_degree
            IN  /\ file' = IF acc THEN Append(file, RecordLine(n, scan_count))
                                  ELSE file
                /\ pointData' = IF acc /\ variant = "visual"
                                THEN Append(pointData, Point(n))
                                ELSE pointData
                /\ skip_next' = ToggleSkip(skip_next)
                /\ points_per_degree' = IF wrap THEN ZeroBuckets ELSE counted
                /\ scan_count' = IF wrap THEN ScanCountOnWrap(variant, scan_count)
                                         ELSE scan_count
                /\ last_angle' = LastAngle(a, last_angle, acc)
                /\ pos' = pos + 1
                /\ examined' = Append(examined,
                       [node |-> n, angle |-> a, distance |-> CurrentDistance(n),
                        quality |-> n.quality, scanAt |-> scan_count,
                        skip |-> skip_next, reached |-> ReachesFilter(n, skip_next),
                        accepted |-> acc, wrapped |-> wrap,
                        lastBefore |-> last_angle, lastAfter |-> last_angle',
                        zeroed |-> points_per_degree' = ZeroBuckets,
                        batch |-> okPolls, scan |-> scan_count',
                        linesBefore |-> Len(file), lines |-> Len(file'),
                        pointsBefore |-> Len(pointData),
                        points |-> Len(pointData'),
                        bucketBefore |-> points_per_degree[Degree(a)],
                        bucket |-> points_per_degree'[Degree(a)]])
    /\ UNCHANGED << argVars, negVars, drv, glState, cleanups, lifeVars,
                    fileOpen, op_ok, nodes, count, polled, okPolls,
                    pollsAfterFlag, asyncVars, windowShouldClose, pc >>

\* The end of the for loop; the visual logger renders the frame, and
\* glfwPollEvents() in renderFrame delivers a pending close request.
EndBatch ==
    /\ pc = "sample"
    /\ pos = count
    /\ windowShouldClose' = IF variant = "visual"
                            THEN windowShouldClose \/ closeRequested
                            ELSE windowShouldClose
    /\ pc' = "check"
    /\ UNCHANGED << argVars, negVars, drv, glState, cleanups, lifeVars,
                    fileOpen, file, batchVars, procVars, pointData, asyncVars >>

\* mutant: the test of the flag sits inside the body of if (SL_IS_OK(...))
BreakOnFlagInBatch(v, flag, ok) == v = "data_logger" /\ flag /\ ok

\* if (ctrl_c_pressed) break; at the foot of every iteration of data_logger,
\* whatever the poll returned
BreakOnFlag(v, flag, ok) == v = "data_logger" /\ flag

\* if (ctrl_c_pressed) break; delay(50);   (data_logger)
\* delay(10);                               (visual logger)
CheckShutdown ==
    /\ pc = "check"
    /\ pc' = IF BreakOnFlag(variant, ctrl_c_pressed, op_ok) THEN "stop"
                                                            ELSE "loop"
    /\ UNCHANGED << argVars, negVars, drv, glState, cleanups, lifeVars,
                    fileOpen, file, batchVars, procVars, pointData, asyncVars,
                    windowShouldClose >>

\* while (!shouldClose && !glfwWindowShouldClose(window)) turning false
LoopExit ==
    /\ pc = "loop"
    /\ ~LoopCondition(variant, ctrl_c_pressed, windowShouldClose)
    /\ pc' = "stop"
    /\ UNCHANGED << argVars, negVars, drv, glState, cleanups, lifeVars,
                    fileOpen, file, batchVars, procVars, pointData, asyncVars,
                    windowShouldClose >>

\* drv->stop();
Stop ==
    /\ pc = "stop"
    /\ scanStopped' = TRUE
    /\ pc' = "close"
    /\ UNCHANGED << argVars, negVars, drv, glState, cleanups, health,
                    handlerSet, scanStarted, fileOpen, file, batchVars,
                    procVars, pointData, asyncVars, windowShouldClose >>

\* outFile.close();
CloseFile ==
    /\ pc = "close"
    /\ fileOpen' = FALSE
    /\ pc' = "finish"
    /\ UNCHANGED << argVars, negVars, drv, glState, cleanups, lifeVars, file,
                    batchVars, procVars, pointData, asyncVars,
                    windowShouldClose >>

\* on_finished: (visual: cleanupOpenGL();) if (drv) { delete drv; drv = NULL; }
\* A second cleanupOpenGL() destroys a window that is already destroyed: the
\* build may fault there or may run on.
Finish ==
    /\ pc = "finish"
    /\ \E again \in NullCalls :
         IF variant = "visual" /\ glState = "destroyed" /\ again = "fault"
         THEN /\ pc' = "crashed"
              /\ cleanups' = cleanups + 1
              /\ UNCHANGED << glState, drv, deletes >>
         ELSE /\ pc' = "done"
              /\ glState' = IF variant = "visual" THEN CleanupOpenGL(glState)
                                                  ELSE glState
              /\ cleanups' = IF variant = "visual" THEN cleanups + 1 ELSE cleanups
              /\ drv' = "null"
              /\ deletes' = IF drv = "live" THEN deletes + 1 ELSE deletes
    /\ UNCHANGED << argVars, opt_channel_type, opt_channel_param_second,
                    useArgcBaudrate, connectSuccess, attempts, channels,
                    lifeVars, fileOpen, file, batchVars, procVars, pointData,
                    asyncVars, windowShouldClose >>

\* ------------------------------------------- the processor as a function
\* The processor of variant v before its first poll.
InitProcessor ==
    [last_angle |-> 0, skip_next |-> FALSE, points_per_degree |-> ZeroBuckets,
     scan_count |-> 0, lines |-> << >>]

\* One pass of the for loop of variant v over node n, from processor state st;
\* head tells that n is the first node of its batch, where scan_count++ runs
\* before the loop.
ProcessorStep(v, st, n, head) ==
    LET sc == IF head THEN ScanCountOnBatch(st.scan_count) ELSE st.scan_count
        a == CurrentAngle(n)
        acc == Accepted(n, st.skip_next, st.points_per_degree)
        wrap == Wrapped(a, st.last_angle)
        counted == IF acc
                   THEN [st.points_per_degree EXCEPT ![Degree(a)] = @ + 1]
                   ELSE st.points_per_degree
    IN  [last_angle |-> LastAngle(a, st.last_angle, acc),
         skip_next |-> ToggleSkip(st.skip_next),
         points_per_degree |-> IF wrap THEN ZeroBuckets ELSE counted,
         scan_count |-> IF wrap THEN ScanCountOnWrap(v, sc) ELSE sc,
         lines |-> IF acc THEN Append(st.lines, RecordLine(n, sc)) ELSE st.lines]

RECURSIVE RunProcessor(_, _)
\* The processor of variant v fed the first i samples this run has examined,
\* batch by batch as the polls returned them.
RunProcessor(v, i) ==
    IF i = 0 THEN InitProcessor
    ELSE ProcessorStep(v, RunProcessor(v, i - 1), examined[i].node,
                       i = 1 \/ examined[i].batch # examined[i - 1].batch)

\* ------------------------------------------------------------- environment
\* SIGINT once the handler is installed: ctrlc() sets the flag.
ctrlc ==
    /\ handlerSet
    /\ pc \notin {"done", "crashed"}
    /\ ~ctrl_c_pressed
    /\ ctrl_c_pressed' = TRUE
    /\ UNCHANGED << argVars, negVars, drv, glState, cleanups, lifeVars,
                    fileOpen, file, batchVars, procVars, pointData,
                    closeRequested, windowShouldClose, pc >>

\* The user closes the window of the visual logger.
WindowClose ==
    /\ variant = "visual"
    /\ glState = "init"
    /\ pc \notin {"done", "crashed"}
    /\ ~closeRequested
    /\ closeRequested' = TRUE
    /\ UNCHANGED << argVars, negVars, drv, glState, cleanups, lifeVars,
                    fileOpen, file, batchVars, procVars, pointData,
                    ctrl_c_pressed, windowShouldClose, pc >>

Next ==
    \/ ParseArgs
    \/ Negotiate
    \/ ConnectCheck
    \/ CheckHealth
    \/ StartScan
    \/ OpenFile
    \/ Poll
    \/ ProcessSample
    \/ EndBatch
    \/ CheckShutdown
    \/ LoopExit
    \/ Stop
    \/ CloseFile
    \/ Finish
    \/ ctrlc
    \/ WindowClose

Spec == Init /\ [][Next]_vars

\* The steps of main itself, as opposed to those of its environment.
MainStep ==
    \/ ParseArgs
    \/ Negotiate
    \/ ConnectCheck
    \/ CheckHealth
    \/ StartScan
    \/ OpenFile
    \/ Poll
    \/ ProcessSample
    \/ EndBatch
    \/ CheckShutdown
    \/ LoopExit
    \/ Stop
    \/ CloseFile
    \/ Finish

\* main keeps running: every call it makes returns (grabScanDataHq and delay
\* have a fixed timeout) and no step of it waits on the environment.
SpecFair == Spec /\ WF_vars(MainStep)

\* What an earlier run left at the output path given as argv[5].
ExistingLines ==
    << HeaderLine,
       RecordLine([angle_z_q14 |-> 1821, dist_mm_q2 |-> 4000, quality |-> 47], 1) >>

InitExisting == InitFile(ExistingLines)

\* The same program started on an output path that already holds lines.
SpecExisting == InitExisting /\ [][Next]_vars

\* =================================================================== claims
\* the data lines of the output file: every line after the header
DataIdx == 2..Len(file)

\* (int) of a decimal read back from a line
ParsedFloor(x) == x.n \div x.d

\* sample i regressed: its angle is below that of the sample examined before it
Regress(i) == i > 1 /\ examined[i].angle < examined[i - 1].angle

\* samples i..j lie in one revolution: no regression after i up to j
SameRevolution(i, j) == \A k \in (i + 1)..j : ~Regress(k)

Scanning == pc \in {"loop", "sample", "check"}

\* C1: for every scan_number r in the file and every degree d, at most
\* MAX_POINTS_PER_DEGREE data lines carry scan_number r and floor(angle) = d.
C1_PerScanNumberCap ==
    \A i \in DataIdx :
        Cardinality({ j \in DataIdx :
                        /\ file[j].scan_number = file[i].scan_number
                        /\ ParsedFloor(file[j].angle) = ParsedFloor(file[i].angle) })
            <= MAX_POINTS_PER_DEGREE

\* C2: within one revolution (from a regressing sample up to the sample before
\* the next regressing one) at most MAX_POINTS_PER_DEGREE samples of any one
\* degree are accepted.
C2_PerRevolutionCap ==
    \A i \in DOMAIN examined :
        Cardinality({ j \in i..Len(examined) :
                        /\ SameRevolution(i, j)
                        /\ examined[j].accepted
                        /\ Degree(examined[j].angle) = Degree(examined[i].angle) })
            <= MAX_POINTS_PER_DEGREE

\* C3: a sample whose distance is not positive writes no line, adds no point
\* to the render buffer and increments no bucket.
C3_NoRecordWithoutRange ==
    \A i \in DOMAIN examined :
        examined[i].distance <= 0 =>
            /\ examined[i].lines = examined[i].linesBefore
            /\ examined[i].points = examined[i].pointsBefore
            /\ examined[i].bucket <= examined[i].bucketBefore

\* C3 witness: a sample without a range was examined in the non-skip phase
\* while its bucket had room.
C3_Witness ==
    \E i \in DOMAIN examined :
        /\ examined[i].distance = 0
        /\ ~examined[i].skip
        /\ examined[i].bucketBefore < MAX_POINTS_PER_DEGREE

RECURSIVE WindowsBounded(_, _)
\* every window of examined samples that ends at the last one holds at most
\* ceil(N / 2) samples that reached the bucket filter (2 * c <= N + 1)
WindowsBounded(i, c) ==
    IF i = 0 THEN TRUE
    ELSE LET c2 == c + (IF examined[i].reached THEN 1 ELSE 0)
         IN  /\ 2 * c2 <= (Len(examined) - i + 1) + 1
             /\ WindowsBounded(i - 1, c2)

\* C4: the decimation flag toggles exactly once per examined sample, accepted
\* or not, across batch boundaries and failed polls; so of any N consecutive
\* examined samples at most ceil(N / 2) reach the bucket filter.
C4_DecimationAlternates ==
    /\ \A i \in DOMAIN examined : examined[i].skip = (i % 2 = 0)
    /\ skip_next = (Len(examined) % 2 = 1)
    /\ WindowsBounded(Len(examined), 0)

\* C4 witness: the flag was carried over a batch boundary and then over a
\* failed poll, after a sample that was examined in the non-skip phase and
\* not accepted.
C4_Witness ==
    /\ pc = "check"
    /\ ~op_ok
    /\ skip_next
    /\ \E i \in DOMAIN examined : ~examined[i].skip /\ ~examined[i].accepted
    /\ \E i \in 1..(Len(examined) - 1) :
           examined[i].batch # examined[i + 1].batch

\* C5: scan_number never decreases along the data lines of the file.
C5_ScanNumberMonotone ==
    \A i \in DataIdx :
        i < Len(file) => file[i].scan_number <= file[i + 1].scan_number

\* C5 witness: lines were written on both sides of a wraparound and of a
\* batch boundary, with different scan numbers.
C5_Witness ==
    /\ \E i \in DataIdx :
           i < Len(file) /\ file[i].scan_number < file[i + 1].scan_number
    /\ \E i \in DOMAIN examined : examined[i].wrapped /\ i < Len(examined)
    /\ okPolls = 2

\* C6: a successfully polled batch changes scan_count by exactly the number of
\* wraparounds detected while the batch was processed.
C6_BatchAddsItsWraps ==
    (pc = "check" /\ op_ok) =>
        LET cur == { i \in DOMAIN examined : examined[i].batch = okPolls }
            first == CHOOSE i \in cur : \A j \in cur : i <= j
            before == IF first = 1 THEN 0 ELSE examined[first - 1].scan
        IN  scan_count - before =
                Cardinality({ i \in cur : examined[i].wrapped })

\* no baud rate on the command line of a serial run, negotiation over
ProbeCase == argv2 = "serial" /\ argc <= 4 /\ pc \notin {"parse", "connect"}

\* C7: with no baud rate given, the serial negotiator tries 115200 then 256000
\* in that order and stops at the first rate at which connect and the identity
\* query both succeed.
C7_ProbeOrder ==
    ProbeCase =>
        /\ Len(attempts) \in 1..Len(baudrateArray)
        /\ \A i \in DOMAIN attempts :
               /\ attempts[i].rate = baudrateArray[i]
               /\ i < Len(attempts) => attempts[i].outcome # "ok"
        /\ Len(attempts) < Len(baudrateArray) =>
               attempts[Len(attempts)].outcome = "ok"

\* C8: in the multi-rate probe a failed 115200 candidate is released before
\* 256000 is opened on a live driver; never two candidate transports at once,
\* never a rate outside the two-entry list.
C8_ProbeReleasesFailed ==
    ProbeCase =>
        /\ \A i \in DOMAIN attempts : attempts[i].rate \in {BAUD_A, BAUD_B}
        /\ attempts[1].rate = BAUD_A
        /\ attempts[1].outcome # "ok" =>
               /\ Len(attempts) = 2
               /\ attempts[2].rate = BAUD_B
               /\ attempts[2].outcome # "fault"
        /\ channels <= 1
        /\ pc # "crashed"

\* C9: start-scan, the output file and polling happen only after a successful
\* negotiation and a health query that succeeded with a non-error status; a
\* failed negotiation or an unhealthy device ends the run without them.
C9_ScanOnlyWhenHealthy ==
    /\ (scanStarted \/ fileOpen \/ file # << >> \/ polled \/ Scanning
            \/ pc \in {"open", "stop"}) =>
           /\ connectSuccess
           /\ attempts[Len(attempts)].outcome = "ok"
           /\ health \in {"good", "warning"}
    /\ (pc \in {"finish", "done", "crashed"}
            /\ (~connectSuccess \/ health \in {"fail", "error"})) =>
           /\ ~scanStarted
           /\ ~fileOpen
           /\ file = << >>
           /\ ~polled
           /\ examined = << >>

\* C9 witness: the run ended on an unhealthy device without a start-scan.
C9_Witness ==
    /\ pc = "done"
    /\ connectSuccess
    /\ health = "error"
    /\ ~scanStarted

\* C10: a failed poll changes nothing in the processor and writes no line; the
\* loop goes on, and scanning is left only after the shutdown flag (or the
\* window-close flag of the visual logger) was set.
C10_FailedPollHarmless ==
    [][ /\ (pc = "loop" /\ pc' = "check") =>
               /\ ~op_ok'
               /\ UNCHANGED << file, points_per_degree, last_angle, skip_next,
                               scan_count, examined >>
        /\ (pc = "check" /\ ~op_ok) =>
               /\ UNCHANGED << file, points_per_degree, last_angle, skip_next,
                               scan_count, examined >>
               /\ pc' \in {"check", "loop", "stop"}
        /\ (Scanning /\ ~Scanning') =>
               /\ pc' = "stop"
               /\ ctrl_c_pressed \/ windowShouldClose ]_vars

\* C10 witness: a poll failed after lines had been written and the loop is
\* back at its head, with the flag in its skip phase.
C10_Witness ==
    /\ pc = "loop"
    /\ ~op_ok
    /\ polled
    /\ Len(file) > 1
    /\ skip_next
    /\ ~ctrl_c_pressed

\* C11: in data_logger, once the shutdown flag is set while scanning, the loop
\* leaves scanning whatever the polls return, after at most one further poll;
\* the batch in progress is processed to its end and no line is lost; then the
\* scan is stopped, the file closed and the driver released, in that order.
C11_ShutdownLeavesLoop ==
    /\ (variant = "data_logger" /\ Scanning /\ ctrl_c_pressed)
           ~> (pc = "done" /\ scanStopped /\ ~fileOpen /\ drv = "null")
    /\ [][ variant = "data_logger" =>
              /\ pollsAfterFlag' <= 1
              /\ (ctrl_c_pressed /\ pc = "check") => pc' \in {"check", "stop"}
              /\ (ctrl_c_pressed /\ pc = "sample") => pc' \in {"sample", "check"}
              /\ Len(file') >= Len(file)
              /\ SubSeq(file', 1, Len(file)) = file
              /\ (~scanStopped /\ scanStopped') =>
                     (fileOpen /\ fileOpen' /\ drv' = "live")
              /\ (fileOpen /\ ~fileOpen') => (scanStopped /\ drv' = "live")
              /\ (drv = "live" /\ drv' = "null" /\ fileOpen) => FALSE
              /\ (drv = "live" /\ drv' = "null" /\ file # << >>) => scanStopped
          ]_vars

\* C11 witness: data_logger ended after a flag that was set at the head of the
\* loop, one more poll and lines in the file.
C11_Witness ==
    /\ variant = "data_logger"
    /\ pc = "done"
    /\ ctrl_c_pressed
    /\ pollsAfterFlag = 1
    /\ Len(file) > 1
    /\ scanStopped
    /\ ~fileOpen
    /\ deletes = 1

\* the run went to on_finished because outFile.open failed
SinkFailed ==
    scanStarted /\ file = << >> /\ pc \in {"finish", "done", "crashed"}

AngleText == [n \in Nodes |-> FormatFloat(n.angle_z_q14 * ANGLE_SCALE, ANGLE_DIV)]
DistanceText == [n \in Nodes |-> FormatFloat(n.dist_mm_q2, DIST_DIV)]

\* C14: the file starts with the header, written once; after it comes exactly
\* one line per accepted sample, in the order of acceptance, whose columns are
\* timestamp, angle, distance, quality, scan_number of that sample; there are
\* no more data lines than examined samples with a positive distance in the
\* non-skip phase.
C14_RecordStream ==
    /\ file # << >> => file[1] = HeaderLine
    /\ examined # << >> =>
           /\ examined[1].linesBefore = 1
           /\ Len(file) = examined[Len(examined)].lines
    /\ \A i \in DOMAIN examined :
           /\ i > 1 => examined[i].linesBefore = examined[i - 1].lines
           /\ examined[i].lines =
                  examined[i].linesBefore + (IF examined[i].accepted THEN 1 ELSE 0)
           /\ examined[i].accepted =>
                  file[examined[i].lines] =
                      [timestamp |-> time_now,
                       angle |-> AngleText[examined[i].node],
                       distance |-> DistanceText[examined[i].node],
                       quality |-> examined[i].node.quality,
                       scan_number |-> examined[i].scanAt]
    /\ Len(file) - 1 <=
           Cardinality({ i \in DOMAIN examined :
                           examined[i].distance > 0 /\ ~examined[i].skip })

\* C14 witness: lines of two batches follow the header, and samples that had
\* a range in the non-skip phase were turned away by a full bucket.
C14_Witness ==
    /\ Len(file) > 3
    /\ okPolls = 2
    /\ \E i \in DOMAIN examined : examined[i].reached /\ ~examined[i].accepted
    /\ \E i \in DOMAIN examined : examined[i].accepted /\ examined[i].batch = 2

\* C15: the record stream is append-only: at every step, the step that opens
\* an output path already holding lines included, the lines present before
\* the step are a prefix of the lines after it.
C15_AppendOnly ==
    [][ /\ Len(file') >= Len(file)
        /\ SubSeq(file', 1, Len(file)) = file ]_vars

\* the visual logger is about to call renderFrame()
AtRender == variant = "visual" /\ pc = "sample" /\ pos = count

\* C16: in the visual logger, whenever a frame is rendered the point buffer
\* holds exactly the points of the samples accepted in the batch polled last,
\* one per line written in that batch and in the same order, and no point of
\* an earlier batch.
C16_RenderedPoints ==
    AtRender =>
        LET cur == { i \in DOMAIN examined :
                       examined[i].batch = okPolls /\ examined[i].accepted }
        IN  /\ Len(pointData) = Cardinality(cur)
            /\ \A i \in cur :
                   /\ examined[i].points \in 1..Len(pointData)
                   /\ pointData[examined[i].points] =
                          [r |-> examined[i].distance, theta |-> examined[i].angle]
                   /\ Len(file) - examined[i].lines =
                          Len(pointData) - examined[i].points
            /\ \A i, j \in cur :
                   i < j => examined[i].points < examined[j].points

\* C16 witness: the second batch is rendered with two points or more, after a
\* first batch that had put points of its own into the buffer, and with a
\* sample of the second batch left out.
C16_Witness ==
    /\ AtRender
    /\ okPolls = 2
    /\ Len(pointData) >= 2
    /\ \E i \in DOMAIN examined : examined[i].batch = 1 /\ examined[i].accepted
    /\ \E i \in DOMAIN examined : examined[i].batch = 2 /\ ~examined[i].accepted

\* the decimal x = n / d read back from a line lies within 1e-3 of num / den
WithinMilli(x, num, den) ==
    LET t == (x.n \div x.d - num \div den) * den * x.d
                 + (x.n % x.d) * den - (num % den) * x.d
        bound == (den * x.d) \div 1000
    IN  t <= bound /\ 0 - t <= bound

\* C17: reading the lines back by their columns gives, for every accepted
\* sample, an angle and a distance within 1e-3 of the values written and the
\* same quality and scan_number, for every angle in [0, 360) and every
\* distance dist_mm_q2 / 4.
C17_RoundTrip ==
    \A i \in DOMAIN examined :
        examined[i].accepted =>
            LET line == file[examined[i].lines]
            IN  /\ WithinMilli(line.angle, examined[i].angle, ANGLE_DIV)
                /\ WithinMilli(line.distance, examined[i].distance, DIST_DIV)
                /\ line.quality = examined[i].quality
                /\ line.scan_number = examined[i].scanAt

\* C18: when a sample's angle is below last_angle, the bucket reset and the
\* increment of scan_count take effect before the sample is filtered: it is
\* tested against zeroed counters, its acceptance is counted in the bucket of
\* the new revolution, and its line carries the incremented scan_count.
C18_ResetBeforeFilter ==
    \A i \in DOMAIN examined :
        examined[i].wrapped =>
            /\ examined[i].reached => examined[i].accepted
            /\ examined[i].accepted =>
                   /\ examined[i].bucket = 1
                   /\ file[examined[i].lines].scan_number = examined[i].scanAt + 1

\* C19: the angle bookkeeping does not depend on acceptance: for every
\* examined sample, skipped, without a range or turned away by a full bucket,
\* the angle is compared with last_angle (all 360 counters are zero after a
\* regression) and last_angle is that sample's angle afterwards.
C19_AngleBookkeeping ==
    /\ \A i \in DOMAIN examined :
           /\ examined[i].lastAfter = examined[i].angle
           /\ examined[i].lastBefore = (IF i = 1 THEN 0 ELSE examined[i - 1].angle)
           /\ examined[i].wrapped = (examined[i].angle < examined[i].lastBefore)
           /\ examined[i].wrapped => examined[i].zeroed
    /\ examined # << >> => last_angle = examined[Len(examined)].angle

\* C19 witness: a sample was turned away by a full bucket, and later a sample
\* without a range regressed in the skip phase.
C19_Witness ==
    /\ \E i \in DOMAIN examined :
           /\ examined[i].reached
           /\ ~examined[i].accepted
           /\ \E j \in (i + 1)..Len(examined) :
                  /\ examined[j].wrapped
                  /\ examined[j].skip
                  /\ examined[j].distance = 0
                  /\ examined[j].bucketBefore = 0
    /\ \E i \in DOMAIN examined :
           examined[i].distance = 0 /\ ~examined[i].skip

\* C20: each of the 360 bucket counters lies in 0..MAX_POINTS_PER_DEGREE and
\* the array is indexed in 0..359 only: a sample whose degree is outside
\* [0, 360) is turned away without touching the array.
C20_BucketsBounded ==
    /\ points_per_degree \in [0..(BARCOUNT - 1) -> 0..MAX_POINTS_PER_DEGREE]
    /\ \A i \in DOMAIN examined :
           /\ examined[i].bucketBefore \in 0..MAX_POINTS_PER_DEGREE
           /\ examined[i].bucket \in 0..MAX_POINTS_PER_DEGREE
           /\ examined[i].angle \div ANGLE_DIV \in 0..(BARCOUNT - 1)
               \/ (~examined[i].accepted /\ examined[i].bucket = examined[i].bucketBefore)

\* C20 witness: the bucket of the last degree, 359, is in use, the bucket of
\* another degree is full and a sample was turned away by it.
C20_Witness ==
    /\ points_per_degree[BARCOUNT - 1] > 0
    /\ \E d \in 0..(BARCOUNT - 2) : points_per_degree[d] = MAX_POINTS_PER_DEGREE
    /\ \E i \in DOMAIN examined :
           /\ examined[i].reached
           /\ ~examined[i].accepted
           /\ examined[i].bucketBefore = MAX_POINTS_PER_DEGREE

\* C21: in the visual logger, once the user has asked to close the window
\* while the loop is scanning, the loop comes to see the request and leaves
\* scanning, whatever the polls return, every later poll failing included.
C21_WindowCloseLeavesLoop ==
    (variant = "visual" /\ Scanning /\ closeRequested) ~> ~Scanning

\* C22: every startScan is followed by a stop before the driver is released,
\* on every way to the exit of the process, the failed open of the output file
\* included.
C22_StartedScanStopped ==
    (scanStarted /\ (drv = "null" \/ pc \in {"done", "crashed"})) => scanStopped

\* C23: in the visual logger the window, the buffers and the shader program
\* are released exactly once on every way out after initOpenGL: cleanupOpenGL
\* never runs a second time, on the exits after a failed negotiation, a failed
\* health check and a failed open as on the graceful stop.
C23_CleanupOnce ==
    variant = "visual" =>
        /\ cleanups <= 1
        /\ pc \in {"done", "crashed"} =>
               (cleanups = 1 /\ glState = "destroyed")

\* C24: in the multi-rate probe connect and the identity query are never
\* called on a driver that was already released: after a candidate whose
\* connect succeeds and whose identity query fails, the next candidate is
\* attempted, on a live driver.
C24_ProbeOnLiveDriver ==
    ProbeCase =>
        \A i \in DOMAIN attempts :
            /\ attempts[i].live
            /\ (attempts[i].outcome = "info_fail" /\ i < Len(baudrateArray)) =>
                   Len(attempts) > i

OtherVariant == IF variant = "data_logger" THEN "visual" ELSE "data_logger"

\* C25: the two variants run the same processor: the data lines this run has
\* written are the lines the other variant writes when it is fed the same poll
\* results from the same initial state (the timestamp left aside).
C25_SameDataLines ==
    file # << >> =>
        SubSeq(file, 2, Len(file)) =
            RunProcessor(OtherVariant, Len(examined)).lines

====
